---------------------------- MODULE Spec2Model ----------------------------
(***************************************************************************)
(* Model of users.py: a Streamlit dashboard over UserReport.csv.           *)
(*                                                                         *)
(* Every interaction (page choice, dropdown choice) re-executes the script *)
(* top to bottom: df = load_data() (memoised by st.cache_data), then the   *)
(* page function the sidebar radio selects.  One action per page models    *)
(* one such script run; the environment may edit or remove the CSV file    *)
(* between runs.                                                           *)
(*                                                                         *)
(* A text value is the sequence of its code points; a missing value        *)
(* (pandas NaN) is NA.  read_csv parses an empty field as NaN, so no cell  *)
(* holds the empty text and <<>> is free to stand for NaN.                 *)
(***************************************************************************)
EXTENDS Naturals, Sequences, FiniteSets

VARIABLES file, cache, df, reads, out

vars == <<file, cache, df, reads, out>>

(***************************************************************************)
(* Bounds of the model.                                                    *)
(***************************************************************************)
MaxRows == 3
MaxReads == 2

(***************************************************************************)
(* Values.                                                                 *)
(***************************************************************************)
NA == <<>>

A1 == <<65, 49>>
A2 == <<65, 50>>
Agt1 == <<71, 49>>
Agt2 == <<71, 50>>
U1 == <<85, 49>>
U2 == <<85, 50>>
Alice == <<65>>
Bob == <<66>>
Admin == <<65>>
AdminX == <<65, 88>>

\* '\n', the separator of line 81
Newline == 10

\* an optional value: None is <<>>, a value v is <<v>>
None == <<>>
Some(v) == <<v>>

\* the column names assigned at line 9
Columns == <<"Agent Code", "Agent Name", "User ID", "User Name", "Role">>
ColSet == {Columns[i] : i \in 1..Len(Columns)}
\* the columns forward-filled at line 10
FillCols == {"Agent Code", "Agent Name", "User ID", "User Name"}

(***************************************************************************)
(* Text order: Python compares str values code point by code point, a      *)
(* proper prefix being smaller.                                            *)
(***************************************************************************)
RECURSIVE StrLess(_, _)
StrLess(s, t) ==
    IF t = <<>> THEN FALSE
    ELSE IF s = <<>> THEN TRUE
    ELSE IF Head(s) # Head(t) THEN Head(s) < Head(t)
    ELSE StrLess(Tail(s), Tail(t))

\* list.sort / sorted(): a stable insertion of each element in turn
RECURSIVE Insert(_, _)
Insert(x, s) ==
    IF s = <<>> THEN <<x>>
    ELSE IF StrLess(x, Head(s)) THEN <<x>> \o s
    ELSE <<Head(s)>> \o Insert(x, Tail(s))

RECURSIVE sorted(_)
sorted(s) ==
    IF s = <<>> THEN <<>>
    ELSE Insert(s[Len(s)], sorted(SubSeq(s, 1, Len(s) - 1)))

\* sorted() of a list mixing str and float NaN raises TypeError; a list of
\* one element is never compared
SortRaises(s) == Len(s) >= 2 /\ \E i \in 1..Len(s) : s[i] = NA

(***************************************************************************)
(* pandas helpers.                                                         *)
(***************************************************************************)
Elems(s) == {s[i] : i \in 1..Len(s)}

\* Series.unique(): the distinct values in order of first appearance, NaN
\* included
RECURSIVE unique(_)
unique(s) ==
    IF s = <<>> THEN <<>>
    ELSE LET u == unique(SubSeq(s, 1, Len(s) - 1))
             x == s[Len(s)]
         IN IF x \in Elems(u) THEN u ELSE Append(u, x)

\* Series.dropna()
dropna(s) == SelectSeq(s, LAMBDA v : v # NA)

\* Series.nunique(): NaN is not counted
nunique(s) == Cardinality(Elems(s) \ {NA})

\* df[col]
Col(t, c) == [i \in 1..Len(t) |-> t[i][c]]

\* DataFrame.ffill() on one column
ffill(s) ==
    LET f[i \in 0..Len(s)] ==
            IF i = 0 THEN NA
            ELSE IF s[i] # NA THEN s[i] ELSE f[i - 1]
    IN [i \in 1..Len(s) |-> f[i]]

(***************************************************************************)
(* load_data, lines 7-12.  The file is what read_csv sees: absent, or a    *)
(* frame of positional rows of `ncols` cells each.                         *)
(***************************************************************************)
read_csv(f) ==
    IF ~f.exists THEN [raised |-> "FileNotFoundError", ncols |-> 0, rows |-> <<>>]
    ELSE [raised |-> "", ncols |-> f.ncols, rows |-> f.rows]

\* line 9: df.columns = [...]; a length mismatch raises ValueError
rename(rows) ==
    [i \in 1..Len(rows) |-> [c \in ColSet |->
        rows[i][CHOOSE k \in 1..Len(Columns) : Columns[k] = c]]]

\* line 10
ffill_columns(t) ==
    [i \in 1..Len(t) |-> [c \in ColSet |->
        IF c \in FillCols THEN ffill(Col(t, c))[i] ELSE t[i][c]]]

\* (variant of notna_role: the rows without a Role are kept)
notna_role_keeps_all(t) == t

\* line 11; reset_index makes the positions 1..n of the sequence
notna_role(t) == SelectSeq(t, LAMBDA r : r["Role"] # NA)

\* (variant of load_body: extra columns are tolerated and cut off)
load_body_tolerant(f) ==
    LET csv == read_csv(f)
    IN IF csv.raised # "" THEN [raised |-> csv.raised, table |-> <<>>]
       ELSE IF csv.ncols < Len(Columns) THEN [raised |-> "ValueError", table |-> <<>>]
       ELSE [raised |-> "", table |-> notna_role(ffill_columns(rename(csv.rows)))]

\* (variant of load_body: the rows without a Role are dropped before the
\* fill, so they cannot be filled from)
load_body_filters_first(f) ==
    LET csv == read_csv(f)
    IN IF csv.raised # "" THEN [raised |-> csv.raised, table |-> <<>>]
       ELSE IF csv.ncols # Len(Columns) THEN [raised |-> "ValueError", table |-> <<>>]
       ELSE [raised |-> "", table |-> ffill_columns(notna_role(rename(csv.rows)))]

\* lines 7-12
load_body(f) ==
    LET csv == read_csv(f)
    IN IF csv.raised # "" THEN [raised |-> csv.raised, table |-> <<>>]
       ELSE IF csv.ncols # Len(Columns) THEN [raised |-> "ValueError", table |-> <<>>]
       ELSE [raised |-> "", table |-> notna_role(ffill_columns(rename(csv.rows)))]

\* (variant of load_data: no memoisation, the body runs on every call)
load_data_uncached(f, c, n) ==
    LET r == load_body(f)
    IN IF r.raised # "" THEN [raised |-> r.raised, table |-> <<>>, cache |-> c, reads |-> n]
       ELSE [raised |-> "", table |-> r.table, cache |-> Some(r.table), reads |-> n + 1]

\* @st.cache_data: the body runs on a miss only, and only a returned value
\* is stored.  The result names the table, the cache and the count of body
\* runs that read and cleaned the file.
load_data(f, c, n) ==
    IF c # None THEN [raised |-> "", table |-> c[1], cache |-> c, reads |-> n]
    ELSE LET r == load_body(f)
         IN IF r.raised # "" THEN [raised |-> r.raised, table |-> <<>>, cache |-> None, reads |-> n]
            ELSE [raised |-> "", table |-> r.table, cache |-> Some(r.table), reads |-> n + 1]

(***************************************************************************)
(* More pandas helpers used by the pages.                                  *)
(***************************************************************************)
\* (variant of Eq: NaN is taken to equal NaN)
Eq_nan(a, v) == a = v

\* df[col] == v, element-wise: NaN equals nothing, itself included
Eq(a, v) == a # NA /\ a = v

\* df[df[col] == v]
where(t, c, v) == SelectSeq(t, LAMBDA r : Eq(r[c], v))

\* the group keys of groupby(col): NaN keys are dropped, keys are sorted
group_keys(t, c) == sorted(unique(dropna(Col(t, c))))

\* sort_values(ascending=False) of <<key, count>> pairs, and the sort of
\* value_counts(): by count, larger first; equal counts keep their order
RECURSIVE InsertDesc(_, _)
InsertDesc(x, s) ==
    IF s = <<>> THEN <<x>>
    ELSE IF x[2] > Head(s)[2] THEN <<x>> \o s
    ELSE <<Head(s)>> \o InsertDesc(x, Tail(s))

RECURSIVE sort_desc(_)
sort_desc(s) ==
    IF s = <<>> THEN <<>>
    ELSE InsertDesc(s[Len(s)], sort_desc(SubSeq(s, 1, Len(s) - 1)))

\* number of positions of s holding v
Count(s, v) == Cardinality({i \in 1..Len(s) : s[i] = v})

\* (variant of value_counts: the pairs stay in order of first appearance)
value_counts_unsorted(s) ==
    LET u == unique(dropna(s))
    IN [i \in 1..Len(u) |-> <<u[i], Count(s, u[i])>>]

\* Series.value_counts(): one <<value, occurrences>> pair per distinct
\* non-missing value, sorted by occurrences, larger first
value_counts(s) ==
    LET u == unique(dropna(s))
    IN sort_desc([i \in 1..Len(u) |-> <<u[i], Count(s, u[i])>>])

\* df.groupby(key)[val].nunique(): <<key, distinct values>> in key order
groupby_nunique(t, key, val) ==
    LET ks == group_keys(t, key)
    IN [i \in 1..Len(ks) |-> <<ks[i], nunique(Col(where(t, key, ks[i]), val))>>]

\* (variant of drop_duplicates: every row is kept)
drop_duplicates_none(s) == s

\* DataFrame.drop_duplicates(): the first row of each distinct row is kept
drop_duplicates(s) == unique(s)

\* sep.join(list)
RECURSIVE join(_, _)
join(sep, s) ==
    IF s = <<>> THEN <<>>
    ELSE IF Len(s) = 1 THEN s[1]
    ELSE s[1] \o <<sep>> \o join(sep, Tail(s))

\* st.selectbox(label, options): None when there is no option, else the
\* option the user has picked
selectbox(options) ==
    IF options = <<>> THEN {None} ELSE {Some(v) : v \in Elems(options)}

\* `if selected:` is false for None only: NaN is truthy and no cell holds
\* the empty text
Truthy(sel) == sel # None

(***************************************************************************)
(* What one script run has rendered.                                       *)
(***************************************************************************)
Blank ==
    [page |-> "", raised |-> "", selected |-> None, total |-> None,
     grid |-> <<>>, metrics |-> <<>>, users_per_agent |-> <<>>,
     role_counts |-> <<>>]

(***************************************************************************)
(* The five pages.                                                         *)
(***************************************************************************)
\* lines 17-34
page_statistics(t) ==
    [Blank EXCEPT
        !.page = "Statistics",
        !.metrics = <<nunique(Col(t, "User ID")), nunique(Col(t, "Agent Name")),
                      nunique(Col(t, "Role"))>>,
        !.users_per_agent = sort_desc(groupby_nunique(t, "Agent Name", "User ID")),
        !.role_counts = value_counts(Col(t, "Role"))]

\* lines 37-53; sel is what the selectbox of line 41 returned
role_options(t) == sorted(unique(Col(t, "Role")))

page_filter_by_role(t, sel) ==
    IF ~Truthy(sel) THEN [Blank EXCEPT !.page = "Filter by Role"]
    ELSE LET filtered_df == where(t, "Role", sel[1])
             users == drop_duplicates([i \in 1..Len(filtered_df) |->
                          <<filtered_df[i]["User ID"], filtered_df[i]["User Name"],
                            filtered_df[i]["Agent Name"]>>])
         IN [Blank EXCEPT !.page = "Filter by Role", !.selected = sel,
                          !.total = Some(Len(users)), !.grid = users]

\* lines 56-68; line 59 raises TypeError when sorted() meets str and NaN
user_raises(t) == SortRaises(unique(Col(t, "User Name")))

user_options(t) == sorted(unique(Col(t, "User Name")))

page_filter_by_user(t, sel) ==
    IF user_raises(t) THEN [Blank EXCEPT !.page = "Filter by User", !.raised = "TypeError"]
    ELSE IF ~Truthy(sel) THEN [Blank EXCEPT !.page = "Filter by User"]
    ELSE LET filtered_df == where(t, "User Name", sel[1])
             roles == unique(Col(filtered_df, "Role"))
         IN [Blank EXCEPT !.page = "Filter by User", !.selected = sel,
                          !.total = Some(Len(roles)), !.grid = roles]

\* lines 71-99
agent_options(t) == sorted(unique(dropna(Col(t, "Agent Name"))))

page_agent_users_roles(t, sel) ==
    IF ~Truthy(sel) THEN [Blank EXCEPT !.page = "Agent Users & Roles"]
    ELSE LET df_filtered == where(t, "Agent Name", sel[1])
             ks == group_keys(df_filtered, "User Name")
             Role(k) == unique(Col(where(df_filtered, "User Name", k), "Role"))
             grouped == [i \in 1..Len(ks) |->
                            [user_name |-> ks[i],
                             roles |-> join(Newline, sorted(Role(ks[i]))),
                             number_of_roles |-> Len(Role(ks[i]))]]
         IN [Blank EXCEPT !.page = "Agent Users & Roles", !.selected = sel,
                          !.total = Some(Len(grouped)), !.grid = grouped]

\* lines 102-115
page_agent_user_counts(t) ==
    [Blank EXCEPT !.page = "Agents User Counts",
                  !.grid = groupby_nunique(t, "Agent Name", "User ID")]

(***************************************************************************)
(* The files of the model.                                                 *)
(***************************************************************************)
\* rows of the sparse report: a row repeats the agent and user of the row
\* above (all four cells left out), names an agent with a user, names an
\* agent and a user ID without the user's name, or gives a user name only;
\* any row may lack its Role
IdentCells ==
    {<<NA, NA, NA, NA>>, <<A1, Agt1, U1, Alice>>, <<A2, Agt2, U2, NA>>,
     <<NA, NA, NA, Bob>>}
RoleCells == {NA, Admin, AdminX}

SourceRows == {c \o <<r>> : c \in IdentCells, r \in RoleCells}

Missing == [exists |-> FALSE, ncols |-> 0, rows |-> <<>>]

WellFormed ==
    {[exists |-> TRUE, ncols |-> 5, rows |-> rs] :
        rs \in UNION {[1..n -> SourceRows] : n \in 0..MaxRows}}

Malformed ==
    {[exists |-> TRUE, ncols |-> 4, rows |-> <<>>],
     [exists |-> TRUE, ncols |-> 4, rows |-> <<<<A1, Agt1, U1, Admin>>>>],
     [exists |-> TRUE, ncols |-> 6, rows |-> <<>>],
     [exists |-> TRUE, ncols |-> 6, rows |-> <<<<A1, Agt1, U1, Alice, Admin, Admin>>>>]}

(***************************************************************************)
(* The state machine.                                                      *)
(***************************************************************************)
Init ==
    /\ file \in WellFormed \cup Malformed \cup {Missing}
    /\ cache = None
    /\ df = None
    /\ reads = 0
    /\ out = Blank

\* line 14 of the run that is about to start
Loaded == load_data(file, cache, reads)

\* a script run that gets past line 14 and renders page `o`
Render(o) ==
    /\ reads <= MaxReads
    /\ Loaded.raised = ""
    /\ cache' = Loaded.cache
    /\ reads' = Loaded.reads
    /\ df' = Some(Loaded.table)
    /\ out' = o
    /\ UNCHANGED file

\* a script run that load_data's exception ends at line 14
ScriptAborts ==
    /\ reads <= MaxReads
    /\ Loaded.raised # ""
    /\ cache' = Loaded.cache
    /\ reads' = Loaded.reads
    /\ df' = None
    /\ out' = [Blank EXCEPT !.raised = Loaded.raised]
    /\ UNCHANGED file

Statistics == Render(page_statistics(Loaded.table))

FilterByRole ==
    \E sel \in selectbox(role_options(Loaded.table)) :
        Render(page_filter_by_role(Loaded.table, sel))

FilterByUser ==
    \E sel \in (IF user_raises(Loaded.table) THEN {None}
                ELSE selectbox(user_options(Loaded.table))) :
        Render(page_filter_by_user(Loaded.table, sel))

AgentUsersRoles ==
    \E sel \in selectbox(agent_options(Loaded.table)) :
        Render(page_agent_users_roles(Loaded.table, sel))

AgentUserCounts == Render(page_agent_user_counts(Loaded.table))

\* the environment: UserReport.csv is deleted, or rewritten with its header
\* line only
RemoveFile ==
    /\ file.exists
    /\ file' = Missing
    /\ UNCHANGED <<cache, df, reads, out>>

TruncateFile ==
    /\ file.exists
    /\ file.rows # <<>>
    /\ file' = [file EXCEPT !.rows = <<>>]
    /\ UNCHANGED <<cache, df, reads, out>>

Next ==
    \/ Statistics
    \/ FilterByRole
    \/ FilterByUser
    \/ AgentUsersRoles
    \/ AgentUserCounts
    \/ ScriptAborts
    \/ RemoveFile
    \/ TruncateFile

Spec == Init /\ [][Next]_vars

(***************************************************************************)
(* Vocabulary of the properties.                                           *)
(***************************************************************************)
\* position of a column in the source file
ColPos(c) == CHOOSE k \in 1..Len(Columns) : Columns[k] = c

\* the positions of the source rows that carry a Role, and the k-th of them
RoleRows(src) == {i \in 1..Len(src) : src[i][ColPos("Role")] # NA}
Kth(S, k) == CHOOSE i \in S : Cardinality({j \in S : j <= i}) = k

\* a step in which load_data's body ran and returned a table
FirstLoad == cache = None /\ cache' # None

\* a step that is a script run (the environment's steps change the file)
ScriptRun == file' = file

NoDup(s) == \A i, j \in 1..Len(s) : s[i] = s[j] => i = j

(***************************************************************************)
(* C1: every row of the cleaned table has a non-missing Agent Code, Agent  *)
(* Name, User ID and User Name, whatever the source file.                  *)
(***************************************************************************)
C1_ForwardFillInvariant ==
    cache # None =>
        \A k \in 1..Len(cache[1]) : \A c \in FillCols : cache[1][k][c] # NA

(***************************************************************************)
(* C6: the cleaned table has no row with a missing Role, and holds every   *)
(* source row that has a Role, in source order at dense positions.         *)
(***************************************************************************)
C6_Completeness ==
    [][FirstLoad =>
        LET src == file.rows
            t == cache'[1]
        IN /\ Len(t) = Cardinality(RoleRows(src))
           /\ \A k \in 1..Len(t) :
                /\ t[k]["Role"] # NA
                /\ \A c \in ColSet :
                     LET v == src[Kth(RoleRows(src), k)][ColPos(c)]
                     IN v # NA => t[k][c] = v]_vars

C6_Witness ==
    /\ cache # None
    /\ file.exists
    /\ Len(file.rows) = MaxRows
    /\ file.rows[1][ColPos("Role")] = NA
    /\ file.rows[2][ColPos("Role")] # NA
    /\ Len(cache[1]) = Cardinality(RoleRows(file.rows))
    /\ Len(cache[1]) < Len(file.rows)

(***************************************************************************)
(* C9: in each filled column separately, a retained row whose source cell  *)
(* is missing gets the value of the nearest preceding source row with a    *)
(* value in that column, role-less rows included; present values stay.     *)
(***************************************************************************)
C9_ForwardFillSource ==
    [][FirstLoad =>
        LET src == file.rows
            t == cache'[1]
        IN \A k \in 1..Len(t) : \A c \in FillCols :
             LET i == Kth(RoleRows(src), k)
                 p == ColPos(c)
                 J == {j \in 1..(i - 1) : src[j][p] # NA}
             IN /\ src[i][p] # NA => t[k][c] = src[i][p]
                /\ (src[i][p] = NA /\ J # {}) =>
                     t[k][c] = src[CHOOSE j \in J : \A m \in J : m <= j][p]]_vars

\* the last row takes its agent and user ID from the role-less second row
\* and its user name from the first row
C9_Witness ==
    /\ cache # None
    /\ file.exists
    /\ Len(file.rows) = 3
    /\ file.rows[1] = <<A1, Agt1, U1, Alice, Admin>>
    /\ file.rows[2] = <<A2, Agt2, U2, NA, NA>>
    /\ file.rows[3] = <<NA, NA, NA, NA, Admin>>
    /\ Len(cache[1]) = 2
    /\ cache[1][2]["Agent Name"] = Agt2
    /\ cache[1][2]["User ID"] = U2
    /\ cache[1][2]["User Name"] = Alice

(***************************************************************************)
(* C8: a load from a missing file, or from a file whose column count is    *)
(* not five, ends in an error; no table becomes available and no page is   *)
(* rendered from it.                                                       *)
(***************************************************************************)
LoadErrors == {"FileNotFoundError", "ValueError"}

C8_LoadFailure ==
    /\ [](out.raised \in LoadErrors => (df = None /\ cache = None /\ out.page = ""))
    /\ [][(ScriptRun /\ cache = None /\ (~file.exists \/ file.ncols # Len(Columns))) =>
            /\ out'.raised \in LoadErrors
            /\ out'.page = ""
            /\ cache' = None
            /\ df' = None
            /\ reads' = reads]_vars

C8_Witness ==
    /\ file.exists
    /\ file.ncols = 6
    /\ file.rows # <<>>
    /\ out.raised = "ValueError"
    /\ df = None
    /\ cache = None

(***************************************************************************)
(* C5: over any sequence of interactions the file is read and cleaned at   *)
(* most once, every page run sees the table of that first load, and no     *)
(* run changes the cached table.                                           *)
(***************************************************************************)
C5_LoadOnce ==
    /\ [](reads <= 1 /\ (df # None => df = cache))
    /\ [][cache # None => (cache' = cache /\ reads' = reads)]_vars

\* a page rendered from the cached table while the file has no data row
C5_Witness ==
    /\ reads = 1
    /\ cache # None
    /\ file.exists
    /\ Len(cache[1]) = MaxRows
    /\ file.rows = <<>>
    /\ out.page = "Agent Users & Roles"
    /\ out.total # None
    /\ df = cache

(***************************************************************************)
(* C2: the Filter-by-Role page shows a (User ID, User Name, Agent Name)    *)
(* triple exactly when some row has the selected Role and that triple, no  *)
(* triple twice, and "Total users" is the number of distinct triples.      *)
(***************************************************************************)
Triple(r) == <<r["User ID"], r["User Name"], r["Agent Name"]>>

C2_FilterByRole ==
    (out.page = "Filter by Role" /\ out.selected # None) =>
        LET t == df[1]
            Triples == {Triple(t[i]) : i \in {j \in 1..Len(t) : t[j]["Role"] = out.selected[1]}}
        IN /\ Elems(out.grid) = Triples
           /\ NoDup(out.grid)
           /\ out.total = Some(Cardinality(Triples))

\* two rows of the selected role with one triple, and a row of another role
C2_Witness ==
    /\ out.page = "Filter by Role"
    /\ out.selected # None
    /\ Len(df[1]) = 3
    /\ out.total = Some(1)
    /\ Cardinality({i \in 1..3 : df[1][i]["Role"] = out.selected[1]}) = 2

(***************************************************************************)
(* C7: the Role Counts of the Statistics page give each distinct Role the  *)
(* number of rows carrying it, one entry per distinct Role, in             *)
(* non-increasing order of count.                                          *)
(***************************************************************************)
C7_RoleCounts ==
    out.page = "Statistics" =>
        LET t == df[1]
            rc == out.role_counts
            R == {t[i]["Role"] : i \in 1..Len(t)}
        IN /\ {rc[i][1] : i \in 1..Len(rc)} = R
           /\ Len(rc) = Cardinality(R)
           /\ \A i \in 1..Len(rc) :
                rc[i][2] = Cardinality({j \in 1..Len(t) : t[j]["Role"] = rc[i][1]})
           /\ \A i, j \in 1..Len(rc) : i < j => rc[i][2] >= rc[j][2]

\* the role seen first has the smaller count, and the count of 2 is two rows
\* of one user
C7_Witness ==
    /\ out.page = "Statistics"
    /\ Len(out.role_counts) = 2
    /\ out.role_counts[1][2] = 2
    /\ df[1][1]["Role"] = out.role_counts[2][1]
    /\ df[1][2]["User ID"] = U1
    /\ df[1][3]["User ID"] = U1

(***************************************************************************)
(* C3: the Agent Users & Roles page has exactly one row per distinct user  *)
(* with a row under the selected agent; its Roles are the user's distinct  *)
(* roles under the agent, sorted and joined by newlines, and its Number of *)
(* Roles is their number.                                                  *)
(***************************************************************************)
SortedSeqOf(S) ==
    CHOOSE s \in [1..Cardinality(S) -> S] :
        \A i, j \in 1..Cardinality(S) : i < j => StrLess(s[i], s[j])

C3_AgentUsersRoles ==
    (out.page = "Agent Users & Roles" /\ out.selected # None) =>
        LET t == df[1]
            Under == {i \in 1..Len(t) : t[i]["Agent Name"] = out.selected[1]}
            Users == {t[i]["User Name"] : i \in Under}
            RolesOf(u) == {t[i]["Role"] : i \in {j \in Under : t[j]["User Name"] = u}}
            g == out.grid
        IN /\ Len(g) = Cardinality(Users)
           /\ out.total = Some(Cardinality(Users))
           /\ \A u \in Users : \E k \in 1..Len(g) :
                /\ g[k].user_name = u
                /\ g[k].roles = join(Newline, SortedSeqOf(RolesOf(u)))
                /\ g[k].number_of_roles = Cardinality(RolesOf(u))

(***************************************************************************)
(* C10: the "Total users" of the Agent Users & Roles page for an agent is  *)
(* the "Number of Users" the Agents User Counts page and the Statistics    *)
(* page show for that agent.                                               *)
(***************************************************************************)
C10_UserCountConsistency ==
    (out.page = "Agent Users & Roles" /\ out.selected # None) =>
        LET t == df[1]
            shown == <<out.selected[1], out.total[1]>>
        IN /\ shown \in Elems(page_agent_user_counts(t).grid)
           /\ shown \in Elems(page_statistics(t).users_per_agent)

(***************************************************************************)
(* C4: in the three pages with a selector, when nothing is selected or the *)
(* selection matches no row, no error is raised and a count of 0 is shown. *)
(* As amended: when the selector has no option the page raises nothing and *)
(* shows no count at all; when the selection matches no row it raises      *)
(* nothing and shows a count of 0.                                         *)
(***************************************************************************)
SelectorColumn ==
    [p \in {"Filter by Role", "Filter by User", "Agent Users & Roles"} |->
        IF p = "Filter by Role" THEN "Role"
        ELSE IF p = "Filter by User" THEN "User Name" ELSE "Agent Name"]

\* the selector of the page has nothing to offer
NoOption ==
    LET t == df[1]
    IN IF out.page = "Agent Users & Roles"
       THEN \A i \in 1..Len(t) : t[i]["Agent Name"] = NA
       ELSE Len(t) = 0

\* a value is selected and no row carries it (NaN equals nothing)
ZeroMatch ==
    /\ out.selected # None
    /\ \A i \in 1..Len(df[1]) :
         LET v == df[1][i][SelectorColumn[out.page]]
         IN v = NA \/ v # out.selected[1]

C4_EmptySelectionShowsZero ==
    out.page \in DOMAIN SelectorColumn =>
        ((NoOption \/ ZeroMatch) => (out.raised = "" /\ out.total = Some(0)))

C4_EmptySelection ==
    out.page \in DOMAIN SelectorColumn =>
        /\ NoOption =>
             (out.raised = "" /\ out.selected = None /\ out.total = None /\ out.grid = <<>>)
        /\ ZeroMatch => (out.raised = "" /\ out.total = Some(0))

\* a file with rows, none with a Role: the role selector has no option
C4_Witness ==
    /\ out.page = "Filter by Role"
    /\ file.exists
    /\ Len(file.rows) = MaxRows
    /\ df = Some(<<>>)
    /\ out.selected = None
    /\ out.total = None

=============================================================================
